---- MODULE Spec2Model ----
(***************************************************************************)
(* Model of the alerts & reports collector (collect_alerts-reports.py)     *)
(* and restorer (restore_alerts-reports.py): the SSH tunnel life cycle,    *)
(* the per-connection forwarder and the document transfer built on it.     *)
(*                                                                         *)
(* Spec     one run of either tool, from main() to process termination.    *)
(*          The collector runs three kinds of thread: the main thread      *)
(*          (pc), the tunnel worker (wpc) and one forwarder per accepted   *)
(*          connection (fwd).  The restorer is single threaded and owns    *)
(*          an ssh child process.                                          *)
(* SpecFwd  the copy loop of one forwarder at the level of bytes.          *)
(***************************************************************************)
EXTENDS Integers, Sequences, FiniteSets, TLC

\* ------------------------------------------------------------------ bounds
\* Largest number of connections the tunnel worker accepts in one run.
MaxConn == 2

VARIABLES
    prog,            \* "collect" | "restore": which tool runs
    pc,              \* position of the main thread
    caller,          \* who called cleanup_tunnel: "create" | "finally" | "atexit", or
                     \* "finally_exc": a finally clause run by a SystemExit on its way up
    other,           \* another process listening on local_port: "none" | "http" | "mute"
    farSide,         \* what answers on the remote localhost:9200: "http" | "refused" | "silent"
    ssh_client,      \* self.ssh_client: "None" | "client"
    transport,       \* the client's SSH transport: "none" | "open" | "closed"
    tunnel_running,  \* self.tunnel_running
    tunnel_server,   \* self.tunnel_server: "None" | "socket"
    tunnel_thread,   \* self.tunnel_thread: "None" | "thread"
    sock,            \* the worker's server_socket: "none" | "listening" | "closed"
    wpc,             \* position of the tunnel worker thread
    fwd,             \* forwarder threads: conn -> [pc, csock, chan]
    createResult,    \* value returned by create_ssh_tunnel: "none" | "true" | "false"
    results,         \* the results map: kind -> "unset" | "true" | "false"
    reqlog,          \* the transfer requests issued so far (search GETs, document PUTs)
    probes,          \* outcomes of the readiness probes issued so far
    exitCode,        \* process exit status, -1 while running
    cleanupCalls,    \* number of cleanup_tunnel calls that have returned
    lastClean,       \* observable tunnel state when the previous call returned
    thisClean,       \* observable tunnel state when the latest call returned
    tunnel_process,  \* restorer: self.tunnel_process: "None" | "proc"
    proc,            \* restorer: the ssh child: "none" | "running" | "exited" | "killed"
    mode,            \* restorer: what main() was asked to restore
    files,           \* restorer: kind -> the JSON file read for it
    queue,           \* restorer: kinds still to restore, in order
    hitNo,           \* restorer: index in hits.hits of the next item
    success_count,   \* restorer: restore_from_file's counter
    failure_count,   \* restorer: restore_from_file's counter
    fileState,       \* restorer: "idle" | "loop" | "counted" | "aborted"
    store,           \* the destination document store: (index, id) -> source
    hpc,             \* byte level: position in _handle_tunnel_connection
    ready,           \* byte level: the endpoints select() returned as readable
    cIn,             \* byte level: bytes the client wrote, not yet read by recv
    rIn,             \* byte level: bytes the far side wrote, not yet read by recv
    cLeft,           \* byte level: bytes the client has still to write
    rLeft,           \* byte level: bytes the far side has still to write
    cClosed,         \* byte level: the client closed its end
    rClosed,         \* byte level: the far side closed its end
    cRead,           \* byte level: everything client_socket.recv has returned
    rRead,           \* byte level: everything channel.recv has returned
    toRemote,        \* byte level: bytes channel.send passed on to the far side
    toClient,        \* byte level: bytes client_socket.send passed on to the client
    ioError,         \* byte level: a recv or send raised
    srcStore,        \* the source document store searched by the collector: (index, id) -> source
    sigLog           \* the SIGINT/SIGTERM signals delivered so far, with what became of each

vars == << prog, pc, caller, other, farSide, ssh_client, transport, tunnel_running,
           tunnel_server, tunnel_thread, sock, wpc, fwd, createResult, results,
           reqlog, probes, exitCode, cleanupCalls, lastClean, thisClean,
           tunnel_process, proc, mode, files, queue, hitNo, success_count,
           failure_count, fileState, store, hpc, ready, cIn, rIn, cLeft, rLeft,
           cClosed, rClosed, cRead, rRead, toRemote, toClient, ioError, srcStore,
           sigLog >>

\* One forwarder seen at the level of bytes (SpecFwd).
hvars == << hpc, ready, cIn, rIn, cLeft, rLeft, cClosed, rClosed, cRead, rRead,
            toRemote, toClient, ioError >>

\* Everything but the byte level forwarder (Spec).
runVars == << prog, pc, caller, other, farSide, ssh_client, transport, tunnel_running,
              tunnel_server, tunnel_thread, sock, wpc, fwd, createResult, results,
              reqlog, probes, exitCode, cleanupCalls, lastClean,
              thisClean, tunnel_process, proc, mode, files, queue, hitNo, success_count,
              failure_count, fileState, store, srcStore, sigLog >>

\* The restorer's own state, untouched by the collector.
rvars == << tunnel_process, proc, mode, files, queue, hitNo, success_count,
            failure_count, fileState, store >>

\* The collector's own state, untouched by the restorer.
cvars == << ssh_client, transport, tunnel_running, tunnel_server, tunnel_thread, sock,
            wpc, fwd >>

tunnelVars == << ssh_client, transport, tunnel_running, tunnel_server, tunnel_thread, sock >>

Conns == 1..MaxConn

CollectKinds == {"reports", "alerts"}

\* Keys of the results map: the document kinds, and the file given with --file.
Kinds == {"reports", "alerts", "file"}

NoFwd == [pc |-> "unused", csock |-> "none", chan |-> "unbound"]

\* The tool's own tunnel holds local_port: the worker's listening socket, or the
\* ssh child started with -L on a port that was free.
OwnListener ==
    \/ sock = "listening"
    \/ prog = "restore" /\ proc = "running" /\ other = "none"

\* The listener that holds local_port: the tool's own, another process's, or none.
PortHolder ==
    IF OwnListener THEN "self"
    ELSE IF other # "none" THEN "other"
    ELSE "free"

\* What the tunnel looks like from outside: the things cleanup_tunnel is about.
TunnelObs ==
    [running |-> tunnel_running, listener |-> (sock = "listening"),
     sshOpen |-> (transport = "open"), procOpen |-> (proc = "running"),
     port |-> PortHolder]

\* ------------------------------------------------- collector: create_ssh_tunnel

\* Ways self.ssh_client.connect() ends: it returns, or raises
\* AuthenticationException, SSHException or socket.error.
ConnectOutcomes == {"ok", "auth_failed", "ssh_error", "socket_error"}

\* The transport behind self.ssh_client after connect(): authentication runs over
\* an established transport, which a rejected login leaves open until close().
TransportAfterConnect(o) ==
    CASE o = "ok"           -> "open"
      [] o = "auth_failed"  -> "open"
      [] o = "ssh_error"    -> "closed"
      [] o = "socket_error" -> "none"

\* Ways the throwaway requests.get('http://localhost:<local_port>') can end, given
\* who listens on the port (own: the tool's own tunnel holds it).
\*   http_2xx, http_error_status  a response came back
\*   conn_error                   requests.exceptions.ConnectionError
\*   timeout                      requests.exceptions.Timeout
\*   request_error                any other requests exception
ProbeOutcomesFor(own, reachable) ==
    IF own
    THEN (IF reachable /\ farSide = "http" THEN {"http_2xx", "http_error_status"} ELSE {})
         \cup (IF farSide = "http" THEN {} ELSE {"conn_error"})
         \cup {"timeout", "request_error"}
    ELSE IF other = "http" THEN {"http_2xx", "http_error_status"}
    ELSE IF other = "mute" THEN {"conn_error", "timeout", "request_error"}
    ELSE {"conn_error"}

ProbeSucceeds_raise_for_status(o) == o = "http_2xx"

\* requests.get returned: the status of the response is never looked at.
ProbeSucceeds(o) == o \in {"http_2xx", "http_error_status"}

Main_CollectAll ==
    /\ prog = "collect" /\ pc = "main"
    /\ pc' = "connect"
    /\ UNCHANGED << prog, caller, other, farSide, tunnelVars, wpc, fwd, createResult,
                    results, reqlog, probes, exitCode, cleanupCalls, lastClean, thisClean, rvars, hvars, srcStore, sigLog >>

\* self.ssh_client = paramiko.SSHClient(); self.ssh_client.connect(...); the
\* except clauses of the outer try return False without any teardown.
Create_Connect ==
    /\ prog = "collect" /\ pc = "connect"
    /\ \E o \in ConnectOutcomes :
         /\ ssh_client' = "client"
         /\ transport' = TransportAfterConnect(o)
         /\ IF o = "ok"
            THEN pc' = "start_thread" /\ UNCHANGED createResult
            ELSE pc' = "create_ret" /\ createResult' = "false"
    /\ UNCHANGED << prog, caller, other, farSide, tunnel_running, tunnel_server,
                    tunnel_thread, sock, wpc, fwd, results, reqlog, probes, exitCode,
                    cleanupCalls, lastClean, thisClean, rvars, hvars, srcStore, sigLog >>

\* self.tunnel_running = True; the worker thread is created and started; the
\* main thread then sleeps for three seconds.
Create_StartThread ==
    /\ prog = "collect" /\ pc = "start_thread"
    /\ tunnel_running' = TRUE
    /\ tunnel_thread' = "thread"
    /\ wpc' = "bind"
    /\ pc' = "probe"
    /\ UNCHANGED << prog, caller, other, farSide, ssh_client, transport, tunnel_server,
                    sock, fwd, createResult, results, reqlog, probes, exitCode,
                    cleanupCalls, lastClean, thisClean, rvars, hvars, srcStore, sigLog >>

\* The readiness probe and the three except clauses around it.
Create_Probe ==
    /\ prog = "collect" /\ pc = "probe"
    /\ \E o \in ProbeOutcomesFor(sock = "listening", transport = "open") :
         /\ probes' = Append(probes, o)
         /\ IF ProbeSucceeds(o)
            THEN pc' = "create_ret" /\ createResult' = "true" /\ UNCHANGED caller
            ELSE pc' = "cl_running" /\ caller' = "create" /\ UNCHANGED createResult
    /\ UNCHANGED << prog, other, farSide, tunnelVars, wpc, fwd, results, reqlog,
                    exitCode, cleanupCalls, lastClean, thisClean, rvars, hvars, srcStore, sigLog >>

\* ---------------------------------------------------- collector: cleanup_tunnel

CleanupRunning_keep(r) == r

CleanupRunning_toggle(r) == ~r

\* if self.tunnel_running: self.tunnel_running = False
CleanupRunning(r) == IF r THEN FALSE ELSE r

Cleanup_Running ==
    /\ prog = "collect" /\ pc = "cl_running"
    /\ tunnel_running' = CleanupRunning(tunnel_running)
    /\ pc' = "cl_server"
    /\ UNCHANGED << prog, caller, other, farSide, ssh_client, transport, tunnel_server,
                    tunnel_thread, sock, wpc, fwd, createResult, results, reqlog, probes,
                    exitCode, cleanupCalls, lastClean, thisClean, rvars, hvars, srcStore, sigLog >>

\* if self.tunnel_server:
Cleanup_ServerTest ==
    /\ prog = "collect" /\ pc = "cl_server"
    /\ pc' = IF tunnel_server # "None" THEN "cl_close" ELSE "cl_join"
    /\ UNCHANGED << prog, caller, other, farSide, tunnelVars, wpc, fwd, createResult,
                    results, reqlog, probes, exitCode, cleanupCalls, lastClean, thisClean, rvars, hvars, srcStore, sigLog >>

\* self.tunnel_server.close(), any exception swallowed
Cleanup_ServerClose ==
    /\ prog = "collect" /\ pc = "cl_close"
    /\ sock' = IF sock = "listening" THEN "closed" ELSE sock
    /\ pc' = "cl_none"
    /\ UNCHANGED << prog, caller, other, farSide, ssh_client, transport, tunnel_running,
                    tunnel_server, tunnel_thread, wpc, fwd, createResult, results, reqlog,
                    probes, exitCode, cleanupCalls, lastClean, thisClean, rvars, hvars, srcStore, sigLog >>

\* self.tunnel_server = None
Cleanup_ServerNone ==
    /\ prog = "collect" /\ pc = "cl_none"
    /\ tunnel_server' = "None"
    /\ pc' = "cl_join"
    /\ UNCHANGED << prog, caller, other, farSide, ssh_client, transport, tunnel_running,
                    tunnel_thread, sock, wpc, fwd, createResult, results, reqlog, probes,
                    exitCode, cleanupCalls, lastClean, thisClean, rvars, hvars, srcStore, sigLog >>

\* if self.tunnel_thread and self.tunnel_thread.is_alive():
Cleanup_JoinTest ==
    /\ prog = "collect" /\ pc = "cl_join"
    /\ pc' = IF tunnel_thread # "None" /\ wpc \notin {"idle", "done"}
             THEN "cl_joining" ELSE "cl_ssh"
    /\ UNCHANGED << prog, caller, other, farSide, tunnelVars, wpc, fwd, createResult,
                    results, reqlog, probes, exitCode, cleanupCalls, lastClean, thisClean, rvars, hvars, srcStore, sigLog >>

\* self.tunnel_thread.join(timeout=5); self.tunnel_thread = None.  With the flag
\* cleared every wait of the worker is bounded by its one second accept tick, so
\* join returns with the worker ended.
Cleanup_Join ==
    /\ prog = "collect" /\ pc = "cl_joining"
    /\ wpc = "done"
    /\ tunnel_thread' = "None"
    /\ pc' = "cl_ssh"
    /\ UNCHANGED << prog, caller, other, farSide, ssh_client, transport, tunnel_running,
                    tunnel_server, sock, wpc, fwd, createResult, results, reqlog, probes,
                    exitCode, cleanupCalls, lastClean, thisClean, rvars, hvars, srcStore, sigLog >>

ChannelsClosed_none(f) == f

\* Closing the transport closes every channel opened on it.
ChannelsClosed(f) ==
    [c \in Conns |-> IF f[c].chan = "open" THEN [f[c] EXCEPT !.chan = "closed"] ELSE f[c]]

\* Where cleanup_tunnel returns to.
AfterCleanup(who) ==
    CASE who = "create"      -> "create_ret"
      [] who = "finally"     -> "summary"
      [] who = "finally_exc" -> "sys_exit"
      [] who = "atexit"      -> "terminated"

\* if self.ssh_client: self.ssh_client.close(); self.ssh_client = None; return
Cleanup_Ssh ==
    /\ prog = "collect" /\ pc = "cl_ssh"
    /\ IF ssh_client # "None"
       THEN /\ transport' = (IF transport = "open" THEN "closed" ELSE transport)
            /\ fwd' = ChannelsClosed(fwd)
            /\ ssh_client' = "None"
       ELSE UNCHANGED << transport, fwd, ssh_client >>
    /\ cleanupCalls' = cleanupCalls + 1
    /\ lastClean' = thisClean
    /\ pc' = AfterCleanup(caller)
    /\ createResult' = IF caller = "create" THEN "false" ELSE createResult
    /\ UNCHANGED << prog, caller, other, farSide, tunnel_running, tunnel_server,
                    tunnel_thread, sock, wpc, results, reqlog, probes, exitCode,
                    rvars, hvars, srcStore, sigLog >>
    /\ thisClean' = << TunnelObs' >>

\* ------------------------------------------------------ collector: _tunnel_worker

Alive == pc # "terminated"

\* socket(), setsockopt(SO_REUSEADDR), bind(('localhost', local_port)), listen(5):
\* bind raises when another listener holds the port.
Worker_Bind ==
    /\ Alive /\ wpc = "bind"
    /\ IF PortHolder = "other"
       THEN wpc' = "finally" /\ UNCHANGED sock
       ELSE wpc' = "assign" /\ sock' = "listening"
    /\ UNCHANGED << prog, pc, caller, other, farSide, ssh_client, transport,
                    tunnel_running, tunnel_server, tunnel_thread, fwd, createResult,
                    results, reqlog, probes, exitCode, cleanupCalls, lastClean, thisClean, rvars, hvars, srcStore, sigLog >>

\* self.tunnel_server = server_socket
Worker_Assign ==
    /\ Alive /\ wpc = "assign"
    /\ tunnel_server' = "socket"
    /\ wpc' = "loop"
    /\ UNCHANGED << prog, pc, caller, other, farSide, ssh_client, transport,
                    tunnel_running, tunnel_thread, sock, fwd, createResult, results,
                    reqlog, probes, exitCode, cleanupCalls, lastClean,
                    thisClean, rvars, hvars, srcStore, sigLog >>

Worker_Loop_forever ==
    /\ Alive /\ wpc = "loop"
    /\ wpc' = "accept"
    /\ UNCHANGED << prog, pc, caller, other, farSide, tunnelVars, fwd, createResult,
                    results, reqlog, probes, exitCode, cleanupCalls, lastClean, thisClean, rvars, hvars, srcStore, sigLog >>

\* while self.tunnel_running:
Worker_Loop ==
    /\ Alive /\ wpc = "loop"
    /\ wpc' = IF tunnel_running THEN "accept" ELSE "finally"
    /\ UNCHANGED << prog, pc, caller, other, farSide, tunnelVars, fwd, createResult,
                    results, reqlog, probes, exitCode, cleanupCalls, lastClean, thisClean, rvars, hvars, srcStore, sigLog >>

\* settimeout(1.0); accept() timed out: continue
Worker_AcceptTimeout ==
    /\ Alive /\ wpc = "accept"
    /\ wpc' = "loop"
    /\ UNCHANGED << prog, pc, caller, other, farSide, tunnelVars, fwd, createResult,
                    results, reqlog, probes, exitCode, cleanupCalls, lastClean, thisClean, rvars, hvars, srcStore, sigLog >>

Worker_AcceptConn_serial ==
    /\ Alive /\ wpc = "accept" /\ sock = "listening"
    /\ \A d \in Conns : fwd[d].pc \in {"unused", "done"}
    /\ \E c \in Conns :
         /\ fwd[c].pc = "unused"
         /\ \A d \in Conns : d < c => fwd[d].pc # "unused"
         /\ fwd' = [fwd EXCEPT ![c] = [pc |-> "open_channel", csock |-> "open",
                                       chan |-> "unbound"]]
    /\ wpc' = "loop"
    /\ UNCHANGED << prog, pc, caller, other, farSide, tunnelVars, createResult, results,
                    reqlog, probes, exitCode, cleanupCalls, lastClean,
                    thisClean, rvars, hvars, srcStore, sigLog >>

\* accept() returned a client socket: a daemon thread running
\* _handle_tunnel_connection(client_socket) is started for it.
Worker_AcceptConn ==
    /\ Alive /\ wpc = "accept" /\ sock = "listening"
    /\ \E c \in Conns :
         /\ fwd[c].pc = "unused"
         /\ \A d \in Conns : d < c => fwd[d].pc # "unused"
         /\ fwd' = [fwd EXCEPT ![c] = [pc |-> "open_channel", csock |-> "open",
                                       chan |-> "unbound"]]
    /\ wpc' = "loop"
    /\ UNCHANGED << prog, pc, caller, other, farSide, tunnelVars, createResult, results,
                    reqlog, probes, exitCode, cleanupCalls, lastClean,
                    thisClean, rvars, hvars, srcStore, sigLog >>

\* accept() raised something other than socket.timeout (the socket was closed
\* under it, or the system call failed): logged if still running, then break.
Worker_AcceptError ==
    /\ Alive /\ wpc = "accept"
    /\ wpc' = "finally"
    /\ UNCHANGED << prog, pc, caller, other, farSide, tunnelVars, fwd, createResult,
                    results, reqlog, probes, exitCode, cleanupCalls, lastClean, thisClean, rvars, hvars, srcStore, sigLog >>

Worker_Finally_leaves_open ==
    /\ Alive /\ wpc = "finally"
    /\ wpc' = "done"
    /\ UNCHANGED << prog, pc, caller, other, farSide, ssh_client, transport,
                    tunnel_running, tunnel_server, tunnel_thread, sock, fwd, createResult,
                    results, reqlog, probes, exitCode, cleanupCalls, lastClean, thisClean, rvars, hvars, srcStore, sigLog >>

\* finally: if self.tunnel_server: self.tunnel_server.close()
Worker_Finally ==
    /\ Alive /\ wpc = "finally"
    /\ sock' = IF tunnel_server # "None" /\ sock = "listening" THEN "closed" ELSE sock
    /\ wpc' = "done"
    /\ UNCHANGED << prog, pc, caller, other, farSide, ssh_client, transport,
                    tunnel_running, tunnel_server, tunnel_thread, fwd, createResult,
                    results, reqlog, probes, exitCode, cleanupCalls, lastClean, thisClean, rvars, hvars, srcStore, sigLog >>

\* ------------------------------------------ collector: _handle_tunnel_connection

\* transport = self.ssh_client.get_transport(); channel = transport.open_channel(
\* 'direct-tcpip', ('localhost', 9200), ...): raises when the client is gone, the
\* transport is not open or the far side refuses the connection.
Fwd_OpenChannel(c) ==
    /\ Alive /\ fwd[c].pc = "open_channel"
    /\ IF ssh_client # "None" /\ transport = "open" /\ farSide # "refused"
       THEN fwd' = [fwd EXCEPT ![c].pc = "copy", ![c].chan = "open"]
       ELSE fwd' = [fwd EXCEPT ![c].pc = "finally"]
    /\ UNCHANGED << prog, pc, caller, other, farSide, tunnelVars, wpc, createResult,
                    results, reqlog, probes, exitCode, cleanupCalls, lastClean, thisClean, rvars, hvars, srcStore, sigLog >>

\* One round of the copy loop that stays in the loop: select timed out, or what
\* was read from one side was sent to the other.
Fwd_CopyRound(c) ==
    /\ Alive /\ fwd[c].pc = "copy" /\ fwd[c].chan = "open"
    /\ UNCHANGED vars

\* A zero-length read from either side (break) or an I/O error (except).
Fwd_CopyEnd(c) ==
    /\ Alive /\ fwd[c].pc = "copy"
    /\ fwd' = [fwd EXCEPT ![c].pc = "finally"]
    /\ UNCHANGED << prog, pc, caller, other, farSide, tunnelVars, wpc, createResult,
                    results, reqlog, probes, exitCode, cleanupCalls, lastClean, thisClean, rvars, hvars, srcStore, sigLog >>

FinallyCloses_socket_only(f) == [f EXCEPT !.pc = "done", !.csock = "closed"]

\* What the finally clause leaves of one forwarder: the client socket closed and
\* the channel closed if it was bound.
FinallyCloses(f) ==
    [f EXCEPT !.pc = "done", !.csock = "closed",
              !.chan = IF @ = "open" THEN "closed" ELSE @]

\* finally: client_socket.close(); channel.close() (a NameError when the channel
\* was never bound, swallowed like any other exception)
Fwd_Finally(c) ==
    /\ Alive /\ fwd[c].pc = "finally"
    /\ fwd' = [fwd EXCEPT ![c] = FinallyCloses(fwd[c])]
    /\ UNCHANGED << prog, pc, caller, other, farSide, tunnelVars, wpc, createResult,
                    results, reqlog, probes, exitCode, cleanupCalls, lastClean, thisClean, rvars, hvars, srcStore, sigLog >>

\* ----------------------------------------- collector: collect_all, main, atexit

\* Ways the search GET of _execute_request can end: a 2xx response (a JSON
\* envelope with or without a `hits` key), a non-2xx status (raise_for_status), a
\* connection error or a timeout.
GetOutcomes == {"ok", "ok_no_hits", "http_error", "conn_error", "timeout"}

\* _execute_request returns True once the body of a 2xx response is on disk.
ExecuteRequest(o) == o \in {"ok", "ok_no_hits"}

\* The status line a request that ended as o was answered with, 0 for none.
StatusOf(o) ==
    CASE o \in {"ok", "ok_no_hits"} -> 200
      [] o = "http_error"           -> 500
      [] OTHER                      -> 0

\* The top-level shape of the JSON body a search GET was answered with.
GetAnswer(o) ==
    CASE o = "ok"         -> "hits"
      [] o = "ok_no_hits" -> "no_hits"
      [] OTHER            -> "none"

GetRequest(kind, o) ==
    [method |-> "GET", target |-> kind, id |-> "", source |-> "", status |-> StatusOf(o),
     answer |-> GetAnswer(o)]

Bool(b) == IF b THEN "true" ELSE "false"

Aborts_never(created) == FALSE

\* if not self.create_ssh_tunnel():
Aborts(created) == created = "false"

Attempted_while_ok(res) == \A k \in DOMAIN res : res[k] # "false"

\* results = {'reports': self.collect_reports(), 'alerts': self.collect_alerts()}
\* (the restorer: restore_alerts, then restore_reports): every entry of the dict
\* is evaluated, whatever the entries before it returned.
Attempted(res) == TRUE

\* if not self.create_ssh_tunnel(): return {'reports': False, 'alerts': False}
CollectAll_Created ==
    /\ prog = "collect" /\ pc = "create_ret"
    /\ IF Aborts(createResult)
       THEN /\ results' = [k \in Kinds |-> IF k \in CollectKinds THEN "false" ELSE "unset"]
            /\ pc' = "summary"
       ELSE /\ pc' = "get_reports"
            /\ UNCHANGED results
    /\ UNCHANGED << prog, caller, other, farSide, tunnelVars, wpc, fwd, createResult,
                    reqlog, probes, exitCode, cleanupCalls, lastClean,
                    thisClean, rvars, hvars, srcStore, sigLog >>

\* 'reports': self.collect_reports()
CollectAll_Reports ==
    /\ prog = "collect" /\ pc = "get_reports"
    /\ \E o \in GetOutcomes :
         /\ reqlog' = Append(reqlog, GetRequest("reports", o))
         /\ results' = [results EXCEPT !["reports"] = Bool(ExecuteRequest(o))]
    /\ pc' = "get_alerts"
    /\ UNCHANGED << prog, caller, other, farSide, tunnelVars, wpc, fwd, createResult,
                    probes, exitCode, cleanupCalls, lastClean, thisClean, rvars, hvars, srcStore, sigLog >>

\* 'alerts': self.collect_alerts(); then the finally clause calls cleanup_tunnel
CollectAll_Alerts ==
    /\ prog = "collect" /\ pc = "get_alerts"
    /\ IF Attempted(results)
       THEN \E o \in GetOutcomes :
              /\ reqlog' = Append(reqlog, GetRequest("alerts", o))
              /\ results' = [results EXCEPT !["alerts"] = Bool(ExecuteRequest(o))]
       ELSE /\ results' = [results EXCEPT !["alerts"] = "false"]
            /\ UNCHANGED reqlog
    /\ pc' = "cl_running"
    /\ caller' = "finally"
    /\ UNCHANGED << prog, other, farSide, tunnelVars, wpc, fwd, createResult, probes,
                    exitCode, cleanupCalls, lastClean, thisClean, rvars, hvars, srcStore, sigLog >>

ExitStatus_any(res) == IF \E k \in DOMAIN res : res[k] = "true" THEN 0 ELSE 1

\* if all(results.values()): sys.exit(0) else: sys.exit(1)
ExitStatus(res) == IF \A k \in DOMAIN res : res[k] # "false" THEN 0 ELSE 1

AtExit_unregistered(p) == "terminated"

\* atexit.register(self.cleanup_tunnel): where the interpreter goes when it exits,
\* the first statement of the tool's cleanup_tunnel.
AtExit(p) == IF p = "collect" THEN "cl_running" ELSE "rcl_test"

\* The summary is printed and sys.exit runs the atexit hook, cleanup_tunnel.
Main_Exit ==
    /\ prog = "collect" /\ pc = "summary"
    /\ exitCode' = ExitStatus(results)
    /\ pc' = AtExit(prog)
    /\ caller' = "atexit"
    /\ UNCHANGED << prog, other, farSide, tunnelVars, wpc, fwd, createResult, results,
                    reqlog, probes, cleanupCalls, lastClean, thisClean, rvars, hvars, srcStore, sigLog >>

\* ------------------------------------------------ restorer: the files restored

\* Largest number of entries of hits.hits in the files enumerated.
MaxHits == 2

\* A field that item.get() does not find is "None"; "" and "{}" are an empty
\* string and an empty object.  An entry that is not a JSON object has dict FALSE.
Doc(ix, id, src) == [dict |-> TRUE, index |-> ix, id |-> id, source |-> src]

NonDict == [dict |-> FALSE, index |-> "None", id |-> "None", source |-> "None"]

Items ==
    { Doc("i", "1", "s"), Doc("i", "1", "t"), Doc("i", "2", "s"),
      Doc("None", "1", "s"), Doc("i", "None", "s"), Doc("i", "1", "None"),
      Doc("i", "1", "{}"), NonDict }

\* Three valid documents and one entry without `_id`.
ScenarioHits ==
    << Doc("i", "1", "s"), Doc("i", "2", "s"), Doc("i", "3", "t"), Doc("i", "None", "s") >>

RECURSIVE SeqsUpTo(_, _)
SeqsUpTo(S, n) ==
    IF n = 0 THEN { << >> }
    ELSE LET shorter == SeqsUpTo(S, n - 1)
         IN  shorter \cup { Append(q, x) : q \in shorter, x \in S }

\* A file on disk: missing, not JSON, JSON without a top-level `hits`, or a
\* search envelope with its hits.hits list.
File(kind, hits) == [kind |-> kind, hits |-> hits]

Files ==
    { File(k, << >>) : k \in {"missing", "bad_json", "no_hits"} }
    \cup { File("envelope", h) : h \in SeqsUpTo(Items, MaxHits) \cup {ScenarioHits} }

\* The files tried for the second kind when two kinds are restored in one run.
SecondFiles ==
    { File("missing", << >>), File("envelope", << >>),
      File("envelope", << Doc("i", "1", "s") >>),
      File("envelope", << Doc("i", "None", "s") >>) }

NoFile == File("missing", << >>)

\* --file, --alerts, --reports alone, or both kinds through restore_all.
Modes == {"file", "alerts", "reports", "all"}

\* The kinds main() restores in each mode, in the order it restores them.
QueueOf(m) ==
    CASE m = "file"    -> << "file" >>
      [] m = "alerts"  -> << "alerts" >>
      [] m = "reports" -> << "reports" >>
      [] m = "all"     -> << "alerts", "reports" >>

Keys == { << "i", n >> : n \in {"1", "2", "3"} }

\* ------------------------------------------------ restorer: create_ssh_tunnel

Main_Restore ==
    /\ prog = "restore" /\ pc = "main"
    /\ queue' = QueueOf(mode)
    /\ pc' = "popen"
    /\ UNCHANGED << prog, caller, other, farSide, cvars, createResult, results, reqlog,
                    probes, exitCode, cleanupCalls, lastClean, thisClean,
                    tunnel_process, proc, mode, files, hitNo, success_count,
                    failure_count, fileState, store, hvars, srcStore, sigLog >>

\* self.tunnel_process = subprocess.Popen(ssh_cmd, ...): the child starts, or
\* Popen raises (ssh or sshpass not installed) and False is returned.
Restorer_Popen ==
    /\ prog = "restore" /\ pc = "popen"
    /\ \/ /\ tunnel_process' = "proc"
          /\ proc' = "running"
          /\ pc' = "poll"
          /\ UNCHANGED createResult
       \/ /\ createResult' = "false"
          /\ pc' = "create_ret"
          /\ UNCHANGED << tunnel_process, proc >>
    /\ UNCHANGED << prog, caller, other, farSide, cvars, results, reqlog, probes,
                    exitCode, cleanupCalls, lastClean, thisClean, mode,
                    files, queue, hitNo, success_count, failure_count, fileState, store, hvars, srcStore, sigLog >>

\* The ssh child ends by itself: the login was refused, the connection dropped.
Proc_Exits ==
    /\ prog = "restore" /\ Alive /\ proc = "running"
    /\ proc' = "exited"
    /\ UNCHANGED << prog, pc, caller, other, farSide, cvars, createResult, results,
                    reqlog, probes, exitCode, cleanupCalls, lastClean,
                    thisClean, tunnel_process, mode, files, queue, hitNo, success_count,
                    failure_count, fileState, store, hvars, srcStore, sigLog >>

\* time.sleep(3); if self.tunnel_process.poll() is not None: return False
Restorer_Poll ==
    /\ prog = "restore" /\ pc = "poll"
    /\ IF proc # "running"
       THEN createResult' = "false" /\ pc' = "create_ret"
       ELSE pc' = "probe" /\ UNCHANGED createResult
    /\ UNCHANGED << prog, caller, other, farSide, cvars, results, reqlog, probes,
                    exitCode, cleanupCalls, lastClean, thisClean, rvars, hvars, srcStore, sigLog >>

\* The readiness probe; any RequestException leads to cleanup_tunnel and False.
Restorer_Probe ==
    /\ prog = "restore" /\ pc = "probe"
    /\ \E o \in ProbeOutcomesFor(OwnListener, proc = "running") :
         /\ probes' = Append(probes, o)
         /\ IF ProbeSucceeds(o)
            THEN pc' = "create_ret" /\ createResult' = "true" /\ UNCHANGED caller
            ELSE pc' = "rcl_test" /\ caller' = "create" /\ UNCHANGED createResult
    /\ UNCHANGED << prog, other, farSide, cvars, results, reqlog, exitCode,
                    cleanupCalls, lastClean, thisClean, rvars, hvars, srcStore, sigLog >>

\* --------------------------------------------------- restorer: cleanup_tunnel

\* if self.tunnel_process and self.tunnel_process.poll() is None: terminate();
\* otherwise cleanup_tunnel returns at once.
RCleanup_Test ==
    /\ prog = "restore" /\ pc = "rcl_test"
    /\ IF tunnel_process # "None" /\ proc = "running"
       THEN /\ pc' = "rcl_wait"
            /\ UNCHANGED << createResult, cleanupCalls, lastClean >>
       ELSE /\ pc' = AfterCleanup(caller)
            /\ createResult' = (IF caller = "create" THEN "false" ELSE createResult)
            /\ cleanupCalls' = cleanupCalls + 1
            /\ lastClean' = thisClean
    /\ UNCHANGED << prog, caller, other, farSide, cvars, results, reqlog, probes,
                    exitCode, rvars, hvars, srcStore, sigLog >>
    /\ thisClean' = IF pc' = "rcl_wait" THEN thisClean ELSE << TunnelObs' >>

\* wait(timeout=5) returns with the child ended, or raises TimeoutExpired and the
\* child is killed; self.tunnel_process = None
RCleanup_Wait ==
    /\ prog = "restore" /\ pc = "rcl_wait"
    /\ IF proc = "running" THEN proc' \in {"exited", "killed"} ELSE UNCHANGED proc
    /\ tunnel_process' = "None"
    /\ pc' = AfterCleanup(caller)
    /\ createResult' = (IF caller = "create" THEN "false" ELSE createResult)
    /\ cleanupCalls' = cleanupCalls + 1
    /\ lastClean' = thisClean
    /\ UNCHANGED << prog, caller, other, farSide, cvars, results, reqlog, probes,
                    exitCode, mode, files, queue, hitNo, success_count,
                    failure_count, fileState, store, hvars, srcStore, sigLog >>
    /\ thisClean' = << TunnelObs' >>

\* ------------------------------------------- restorer: main and restore_all

\* if not restorer.create_ssh_tunnel(): restore_all returns both kinds False;
\* the single-kind and single-file branches of main call sys.exit(1).
Restore_Created ==
    /\ prog = "restore" /\ pc = "create_ret"
    /\ IF ~Aborts(createResult)
       THEN /\ pc' = "file_open"
            /\ UNCHANGED << results, exitCode, caller >>
       ELSE IF mode = "all"
       THEN /\ results' = [k \in Kinds |-> IF k \in CollectKinds THEN "false" ELSE "unset"]
            /\ pc' = "summary"
            /\ UNCHANGED << exitCode, caller >>
       ELSE /\ exitCode' = 1
            /\ pc' = AtExit(prog)
            /\ caller' = "atexit"
            /\ UNCHANGED results
    /\ UNCHANGED << prog, other, farSide, cvars, createResult, reqlog, probes,
                    cleanupCalls, lastClean, thisClean, rvars, hvars, srcStore, sigLog >>

\* ----------------------------------------------- restorer: restore_from_file

CurFile == files[Head(queue)]

\* The value restore_from_file returns before it reaches the loop, "loop" when
\* it reaches it: the file is missing, is not JSON, has no `hits`, or has no items.
BeforeLoop(f) ==
    CASE f.kind = "missing"  -> "false"
      [] f.kind = "bad_json" -> "false"
      [] f.kind = "no_hits"  -> "false"
      [] f.kind = "envelope" -> IF f.hits = << >> THEN "true" ELSE "loop"

\* What restore_from_file does next once the file is restored or given up: the
\* next kind of restore_all, or the finally clause that calls cleanup_tunnel.
FileReturns(value) ==
    /\ results' = [results EXCEPT ![Head(queue)] = value]
    /\ queue' = Tail(queue)
    /\ IF Tail(queue) # << >>
       THEN pc' = "file_open" /\ UNCHANGED caller
       ELSE pc' = "rcl_test" /\ caller' = "finally"

\* restore_from_file up to `for item in hits:`
Restore_Open ==
    /\ prog = "restore" /\ pc = "file_open"
    /\ success_count' = 0
    /\ failure_count' = 0
    /\ hitNo' = 1
    /\ IF ~Attempted(results)
       THEN /\ fileState' = "idle"
            /\ FileReturns("false")
       ELSE IF BeforeLoop(CurFile) = "loop"
       THEN /\ pc' = "item"
            /\ fileState' = "loop"
            /\ UNCHANGED << results, queue, caller >>
       ELSE /\ fileState' = "idle"
            /\ FileReturns(BeforeLoop(CurFile))
    /\ UNCHANGED << prog, other, farSide, cvars, createResult, reqlog, probes, exitCode,
                    cleanupCalls, lastClean, thisClean, tunnel_process,
                    proc, mode, files, store, hvars, srcStore, sigLog >>

Falsy(v) == v \in {"None", "", "{}"}

AllFields_index_id_only(item) == ~Falsy(item.index) /\ ~Falsy(item.id)

\* all([index, doc_id, source])
AllFields(item) == ~Falsy(item.index) /\ ~Falsy(item.id) /\ ~Falsy(item.source)

\* Ways the PUT of one document can end: the store took it (2xx), the store
\* refused it (non-2xx, raise_for_status), the connection failed, or it timed out
\* before reaching the store.
PutOutcomes == {"ok", "http_error", "conn_error", "timeout"}

\* The status the store answers an accepted PUT /<index>/_doc/<id> with:
\* 201 (result "created") for a new key, 200 (result "updated") for a known one.
PutStatus(st, item) == IF st[<< item.index, item.id >>] = "absent" THEN 201 ELSE 200

PutReturnsTrue_created_only(o, status) == o = "ok" /\ status = 201

\* raise_for_status() passes for every 2xx status and response.json() parses.
PutReturnsTrue(o, status) == o = "ok" /\ status \in {200, 201}

\* PUT http://localhost:<local_port>/<index>/_doc/<id> with json=source: the
\* store holds source under (index, id), whatever it held there before.
StorePut(st, item) == [st EXCEPT ![<< item.index, item.id >>] = item.source]

\* The PUT as the store saw it, with the status it was answered with (0: none).
PutRequest(item, o, st) ==
    [method |-> "PUT", target |-> item.index, id |-> item.id, source |-> item.source,
     status |-> IF o = "ok" THEN PutStatus(st, item) ELSE StatusOf(o),
     answer |-> IF o # "ok" THEN "none"
                ELSE IF PutStatus(st, item) = 201 THEN "created" ELSE "updated"]

NextItem_again ==
    /\ hitNo' = hitNo
    /\ pc' = "item"
    /\ UNCHANGED fileState

\* After one item: the next one, or the end of the loop.
NextItem ==
    /\ hitNo' = hitNo + 1
    /\ IF hitNo = Len(CurFile.hits)
       THEN pc' = "file_done" /\ fileState' = "counted"
       ELSE pc' = "item" /\ UNCHANGED fileState

\* One round of `for item in hits:` with the _restore_single_item call in it.
\* An entry that is not an object makes item.get() raise; the except clause then
\* formats doc_id, which is unbound, and that error leaves _restore_single_item
\* and ends restore_from_file in its `except Exception` with False.
Restore_Item ==
    /\ prog = "restore" /\ pc = "item"
    /\ LET item == CurFile.hits[hitNo] IN
         IF ~item.dict
         THEN /\ fileState' = "aborted"
              /\ pc' = "file_done"
              /\ UNCHANGED << hitNo, success_count, failure_count, reqlog, store >>
         ELSE IF ~AllFields(item)
         THEN /\ failure_count' = failure_count + 1
              /\ NextItem
              /\ UNCHANGED << success_count, reqlog, store >>
         ELSE \E o \in PutOutcomes :
              /\ reqlog' = Append(reqlog, PutRequest(item, o, store))
              /\ store' = IF o = "ok" THEN StorePut(store, item) ELSE store
              /\ IF PutReturnsTrue(o, PutStatus(store, item))
                 THEN success_count' = success_count + 1 /\ UNCHANGED failure_count
                 ELSE failure_count' = failure_count + 1 /\ UNCHANGED success_count
              /\ NextItem
    /\ UNCHANGED << prog, caller, other, farSide, cvars, createResult, results, probes,
                    exitCode, cleanupCalls, lastClean, thisClean,
                    tunnel_process, proc, mode, files, queue, hvars, srcStore, sigLog >>

FileResult_always_true(state, failures) == state = "counted"

\* return failure_count == 0 after the loop; False from the except clause
FileResult(state, failures) == state = "counted" /\ failures = 0

Restore_FileDone ==
    /\ prog = "restore" /\ pc = "file_done"
    /\ FileReturns(Bool(FileResult(fileState, failure_count)))
    /\ fileState' = "idle"
    /\ UNCHANGED << prog, other, farSide, cvars, createResult, reqlog, probes, exitCode,
                    cleanupCalls, lastClean, thisClean, tunnel_process,
                    proc, mode, files, hitNo, success_count, failure_count, store, hvars, srcStore, sigLog >>

\* The summary is printed and sys.exit runs the atexit hook, cleanup_tunnel.
Restore_Exit ==
    /\ prog = "restore" /\ pc = "summary"
    /\ exitCode' = ExitStatus(results)
    /\ pc' = AtExit(prog)
    /\ caller' = "atexit"
    /\ UNCHANGED << prog, other, farSide, cvars, createResult, results, reqlog, probes,
                    cleanupCalls, lastClean, thisClean, rvars, hvars, srcStore, sigLog >>

RestorerNext ==
    \/ Main_Restore
    \/ Restorer_Popen
    \/ Proc_Exits
    \/ Restorer_Poll
    \/ Restorer_Probe
    \/ RCleanup_Test
    \/ RCleanup_Wait
    \/ Restore_Created
    \/ Restore_Open
    \/ Restore_Item
    \/ Restore_FileDone
    \/ Restore_Exit

CollectorNext ==
    \/ Main_CollectAll
    \/ Create_Connect
    \/ Create_StartThread
    \/ Create_Probe
    \/ Cleanup_Running
    \/ Cleanup_ServerTest
    \/ Cleanup_ServerClose
    \/ Cleanup_ServerNone
    \/ Cleanup_JoinTest
    \/ Cleanup_Join
    \/ Cleanup_Ssh
    \/ Worker_Bind
    \/ Worker_Assign
    \/ Worker_Loop
    \/ Worker_AcceptTimeout
    \/ Worker_AcceptConn
    \/ Worker_AcceptError
    \/ Worker_Finally
    \/ \E c \in Conns : Fwd_OpenChannel(c)
    \/ \E c \in Conns : Fwd_CopyRound(c)
    \/ \E c \in Conns : Fwd_CopyEnd(c)
    \/ \E c \in Conns : Fwd_Finally(c)
    \/ CollectAll_Created
    \/ CollectAll_Reports
    \/ CollectAll_Alerts
    \/ Main_Exit

\* --------------------------- _handle_tunnel_connection at the level of bytes

\* Bytes each side writes in one connection; byte n of a stream is the number n.
MaxBytes == 2

\* Largest number of bytes one recv returns: stands for the 4096 of recv(4096).
MaxChunk == 2

Min(a, b) == IF a < b THEN a ELSE b

\* The client writes its next byte to the local socket.
Client_Write ==
    /\ hpc \in {"open_channel", "select", "client", "channel"} /\ ~cClosed /\ cLeft > 0
    /\ cIn' = Append(cIn, MaxBytes - cLeft + 1)
    /\ cLeft' = cLeft - 1
    /\ UNCHANGED << runVars, hpc, ready, rIn, rLeft, cClosed, rClosed, cRead, rRead,
                    toRemote, toClient, ioError >>

\* The client closes its end of the local socket.
Client_Close ==
    /\ hpc \in {"open_channel", "select", "client", "channel"} /\ ~cClosed
    /\ cClosed' = TRUE
    /\ UNCHANGED << runVars, hpc, ready, cIn, rIn, cLeft, rLeft, rClosed, cRead, rRead,
                    toRemote, toClient, ioError >>

\* The far side writes its next byte to the channel.
Remote_Write ==
    /\ hpc \in {"open_channel", "select", "client", "channel"} /\ ~rClosed /\ rLeft > 0
    /\ rIn' = Append(rIn, MaxBytes - rLeft + 1)
    /\ rLeft' = rLeft - 1
    /\ UNCHANGED << runVars, hpc, ready, cIn, cLeft, cClosed, rClosed, cRead, rRead,
                    toRemote, toClient, ioError >>

\* The far side closes the channel.
Remote_Close ==
    /\ hpc \in {"open_channel", "select", "client", "channel"} /\ ~rClosed
    /\ rClosed' = TRUE
    /\ UNCHANGED << runVars, hpc, ready, cIn, rIn, cLeft, rLeft, cClosed, cRead, rRead,
                    toRemote, toClient, ioError >>

\* get_transport() and open_channel(): the channel opens, or the call raises.
Handle_OpenChannel ==
    /\ hpc = "open_channel"
    /\ \/ hpc' = "select" /\ UNCHANGED ioError
       \/ hpc' = "finally" /\ ioError' = TRUE
    /\ UNCHANGED << runVars, ready, cIn, rIn, cLeft, rLeft, cClosed, rClosed, cRead,
                    rRead, toRemote, toClient >>

\* The endpoints select() reports: one with bytes to read or with its peer gone.
Readable ==
    (IF cIn # << >> \/ cClosed THEN {"client"} ELSE {})
    \cup (IF rIn # << >> \/ rClosed THEN {"channel"} ELSE {})

Handle_Select_idle_ends ==
    /\ hpc = "select"
    /\ ready' = Readable
    /\ hpc' = IF Readable = {} THEN "finally" ELSE "client"
    /\ UNCHANGED << runVars, cIn, rIn, cLeft, rLeft, cClosed, rClosed, cRead, rRead,
                    toRemote, toClient, ioError >>

\* ready, _, _ = select([client_socket, channel], [], [], 1.0);
\* if not ready: continue
Handle_Select ==
    /\ hpc = "select"
    /\ ready' = Readable
    /\ hpc' = IF Readable = {} THEN "select" ELSE "client"
    /\ UNCHANGED << runVars, cIn, rIn, cLeft, rLeft, cClosed, rClosed, cRead, rRead,
                    toRemote, toClient, ioError >>

\* The lengths recv(4096) may return from a buffer: 0 at end of stream.
RecvLengths(buf) == IF buf = << >> THEN {0} ELSE 1..Min(Len(buf), MaxChunk)

\* The numbers of bytes send(data) may take: anything from 1 to all of them.
SendLengths(data) == 1..Len(data)

\* send(data): the first n bytes are passed on; the number returned is dropped.
Forwarded(data, n) == SubSeq(data, 1, n)

Drop(buf, n) == SubSeq(buf, n + 1, Len(buf))

Handle_Client_drains ==
    /\ hpc = "client"
    /\ IF "client" \notin ready
       THEN /\ hpc' = "channel"
            /\ UNCHANGED << cIn, cRead, toRemote, ioError >>
       ELSE \/ \E n \in RecvLengths(cIn) :
                 LET data == SubSeq(cIn, 1, n) IN
                   /\ cIn' = Drop(cIn, n)
                   /\ cRead' = cRead \o data
                   /\ IF n = 0
                      THEN hpc' = "channel" /\ UNCHANGED << toRemote, ioError >>
                      ELSE \/ \E k \in SendLengths(data) :
                                /\ toRemote' = toRemote \o Forwarded(data, k)
                                /\ hpc' = "channel"
                                /\ UNCHANGED ioError
                           \/ /\ hpc' = "finally"
                              /\ ioError' = TRUE
                              /\ UNCHANGED toRemote
            \/ /\ hpc' = "finally"
               /\ ioError' = TRUE
               /\ UNCHANGED << cIn, cRead, toRemote >>
    /\ UNCHANGED << runVars, ready, rIn, cLeft, rLeft, cClosed, rClosed, rRead, toClient >>

\* if client_socket in ready: data = client_socket.recv(4096);
\* if not data: break; channel.send(data)
Handle_Client ==
    /\ hpc = "client"
    /\ IF "client" \notin ready
       THEN /\ hpc' = "channel"
            /\ UNCHANGED << cIn, cRead, toRemote, ioError >>
       ELSE \/ \E n \in RecvLengths(cIn) :
                 LET data == SubSeq(cIn, 1, n) IN
                   /\ cIn' = Drop(cIn, n)
                   /\ cRead' = cRead \o data
                   /\ IF n = 0
                      THEN hpc' = "finally" /\ UNCHANGED << toRemote, ioError >>
                      ELSE \/ \E k \in SendLengths(data) :
                                /\ toRemote' = toRemote \o Forwarded(data, k)
                                /\ hpc' = "channel"
                                /\ UNCHANGED ioError
                           \/ /\ hpc' = "finally"
                              /\ ioError' = TRUE
                              /\ UNCHANGED toRemote
            \/ /\ hpc' = "finally"
               /\ ioError' = TRUE
               /\ UNCHANGED << cIn, cRead, toRemote >>
    /\ UNCHANGED << runVars, ready, rIn, cLeft, rLeft, cClosed, rClosed, rRead, toClient >>

\* if channel in ready: data = channel.recv(4096);
\* if not data: break; client_socket.send(data)
Handle_Channel ==
    /\ hpc = "channel"
    /\ IF "channel" \notin ready
       THEN /\ hpc' = "select"
            /\ UNCHANGED << rIn, rRead, toClient, ioError >>
       ELSE \/ \E n \in RecvLengths(rIn) :
                 LET data == SubSeq(rIn, 1, n) IN
                   /\ rIn' = Drop(rIn, n)
                   /\ rRead' = rRead \o data
                   /\ IF n = 0
                      THEN hpc' = "finally" /\ UNCHANGED << toClient, ioError >>
                      ELSE \/ \E k \in SendLengths(data) :
                                /\ toClient' = toClient \o Forwarded(data, k)
                                /\ hpc' = "select"
                                /\ UNCHANGED ioError
                           \/ /\ hpc' = "finally"
                              /\ ioError' = TRUE
                              /\ UNCHANGED toClient
            \/ /\ hpc' = "finally"
               /\ ioError' = TRUE
               /\ UNCHANGED << rIn, rRead, toClient >>
    /\ UNCHANGED << runVars, ready, cIn, cLeft, rLeft, cClosed, rClosed, cRead, toRemote >>

\* finally: client_socket.close(); channel.close()
Handle_Finally ==
    /\ hpc = "finally"
    /\ hpc' = "done"
    /\ cClosed' = TRUE
    /\ rClosed' = TRUE
    /\ UNCHANGED << runVars, ready, cIn, rIn, cLeft, rLeft, cRead, rRead, toRemote,
                    toClient, ioError >>

NextFwd ==
    \/ Client_Write
    \/ Client_Close
    \/ Remote_Write
    \/ Remote_Close
    \/ Handle_OpenChannel
    \/ Handle_Select
    \/ Handle_Client
    \/ Handle_Channel
    \/ Handle_Finally

InitFiles ==
    \/ /\ prog = "collect"
       /\ mode = "all"
       /\ files = [k \in Kinds |-> NoFile]
    \/ /\ prog = "restore"
       /\ mode \in Modes
       /\ \E f \in Files, g \in SecondFiles :
            files = [k \in Kinds |->
                       IF k = Head(QueueOf(mode)) THEN f
                       ELSE IF mode = "all" /\ k = "reports" THEN g
                       ELSE NoFile]

InitRun ==
    /\ prog \in {"collect", "restore"}
    /\ pc = "main"
    /\ caller = "none"
    /\ other \in {"none", "http", "mute"}
    /\ farSide \in {"http", "refused", "silent"}
    /\ ssh_client = "None"
    /\ transport = "none"
    /\ tunnel_running = FALSE
    /\ tunnel_server = "None"
    /\ tunnel_thread = "None"
    /\ sock = "none"
    /\ wpc = "idle"
    /\ fwd = [c \in Conns |-> NoFwd]
    /\ createResult = "none"
    /\ results = [k \in Kinds |-> "unset"]
    /\ reqlog = << >>
    /\ probes = << >>
    /\ exitCode = -1
    /\ cleanupCalls = 0
    /\ lastClean = << >>
    /\ thisClean = << >>
    /\ tunnel_process = "None"
    /\ proc = "none"
    /\ InitFiles
    /\ queue = << >>
    /\ hitNo = 1
    /\ success_count = 0
    /\ failure_count = 0
    /\ fileState = "idle"
    /\ store = [k \in Keys |-> "absent"]
    /\ srcStore = [k \in Keys |-> "absent"]
    /\ sigLog = << >>

\* The byte level forwarder before its thread is started.
InitBytesIdle ==
    /\ hpc = "unused"
    /\ ready = {}
    /\ cIn = << >> /\ rIn = << >>
    /\ cLeft = 0 /\ rLeft = 0
    /\ cClosed = FALSE /\ rClosed = FALSE
    /\ cRead = << >> /\ rRead = << >>
    /\ toRemote = << >> /\ toClient = << >>
    /\ ioError = FALSE

Init == InitRun /\ InitBytesIdle

\* One accepted connection of a collector whose tunnel is up: each side has up to
\* MaxBytes bytes to write.
InitFwd ==
    /\ prog = "collect" /\ pc = "get_reports" /\ caller = "none"
    /\ other = "none" /\ farSide = "http"
    /\ ssh_client = "client" /\ transport = "open"
    /\ tunnel_running = TRUE /\ tunnel_server = "socket" /\ tunnel_thread = "thread"
    /\ sock = "listening" /\ wpc = "loop"
    /\ fwd = [c \in Conns |-> NoFwd]
    /\ createResult = "true"
    /\ results = [k \in Kinds |-> "unset"]
    /\ reqlog = << >> /\ probes = << "http_2xx" >>
    /\ exitCode = -1
    /\ cleanupCalls = 0
    /\ lastClean = << >> /\ thisClean = << >>
    /\ tunnel_process = "None" /\ proc = "none"
    /\ mode = "all" /\ files = [k \in Kinds |-> NoFile]
    /\ queue = << >> /\ hitNo = 1
    /\ success_count = 0 /\ failure_count = 0
    /\ fileState = "idle"
    /\ store = [k \in Keys |-> "absent"]
    /\ srcStore = [k \in Keys |-> "absent"]
    /\ sigLog = << >>
    /\ hpc = "open_channel"
    /\ ready = {}
    /\ cIn = << >> /\ rIn = << >>
    /\ cLeft \in 0..MaxBytes /\ rLeft \in 0..MaxBytes
    /\ cClosed = FALSE /\ rClosed = FALSE
    /\ cRead = << >> /\ rRead = << >>
    /\ toRemote = << >> /\ toClient = << >>
    /\ ioError = FALSE

Next == CollectorNext \/ RestorerNext

Spec == Init /\ [][Next]_vars

SpecFwd == InitFwd /\ [][NextFwd]_vars

\* ----------------------------------------------- collect, then restore (SpecRT)

\* "size": 9999 in the body of both search requests.
SearchSize == 9999

\* What a document of the source store holds as its source: an object, another
\* one, or the empty object.
Sources == {"s", "t", "{}"}

\* The keys under which a store holds a document.
Held(st) == { k \in Keys : st[k] # "absent" }

\* The orders in which a search may list the documents with the keys S.
Orderings(S) ==
    { q \in SeqsUpTo(S, Cardinality(S)) :
        /\ Len(q) = Cardinality(S)
        /\ \A m, n \in 1..Len(q) : m # n => q[m] # q[n] }

\* The entry of hits.hits for the document held under key k.
Hit(st, k) == Doc(k[1], k[2], st[k])

\* hits.hits of the answer to match_all with "size": 9999: the documents of the
\* store in the order the search lists them, SearchSize of them at most.
SearchHits(st, order) ==
    [n \in 1..Min(Len(order), SearchSize) |-> Hit(st, order[n])]

\* What _execute_request leaves on disk for a GET that ended as o: the body of a
\* 2xx response written through json.dump (or as text), no file otherwise.
SavedFile(o, hits) ==
    CASE o = "ok"         -> File("envelope", hits)
      [] o = "ok_no_hits" -> File("no_hits", << >>)
      [] OTHER            -> NoFile

\* _execute_request of the collector against the source store; the file it
\* leaves is the one the restorer is then started on with --file.
RT_Collect ==
    /\ pc = "rt_collect"
    /\ \E o \in GetOutcomes, order \in Orderings(Held(srcStore)) :
         /\ reqlog' = Append(reqlog, GetRequest("alerts", o))
         /\ files' = [files EXCEPT !["file"] = SavedFile(o, SearchHits(srcStore, order))]
    /\ pc' = "file_open"
    /\ UNCHANGED << prog, caller, other, farSide, cvars, createResult, results, probes,
                    exitCode, cleanupCalls, lastClean, thisClean, tunnel_process, proc,
                    mode, queue, hitNo, success_count, failure_count, fileState, store,
                    hvars, srcStore, sigLog >>

\* A source store of up to three documents has been searched by a collector
\* whose tunnel is up; the restorer, its own tunnel up, restores the file into a
\* destination store that may already hold documents.
InitRT ==
    /\ prog = "restore" /\ mode = "file" /\ pc = "rt_collect" /\ caller = "none"
    /\ other = "none" /\ farSide = "http"
    /\ ssh_client = "None" /\ transport = "none"
    /\ tunnel_running = FALSE /\ tunnel_server = "None" /\ tunnel_thread = "None"
    /\ sock = "none" /\ wpc = "idle"
    /\ fwd = [c \in Conns |-> NoFwd]
    /\ createResult = "true"
    /\ results = [k \in Kinds |-> "unset"]
    /\ reqlog = << >> /\ probes = << "http_2xx" >>
    /\ exitCode = -1
    /\ cleanupCalls = 0
    /\ lastClean = << >> /\ thisClean = << >>
    /\ tunnel_process = "proc" /\ proc = "running"
    /\ files = [k \in Kinds |-> NoFile]
    /\ queue = << "file" >> /\ hitNo = 1
    /\ success_count = 0 /\ failure_count = 0
    /\ fileState = "idle"
    /\ srcStore \in [Keys -> Sources \cup {"absent"}]
    /\ store \in [Keys -> {"absent", "t"}]
    /\ sigLog = << >>
    /\ InitBytesIdle

NextRT ==
    \/ RT_Collect
    \/ Restore_Open
    \/ Restore_Item
    \/ Restore_FileDone
    \/ RCleanup_Test
    \/ RCleanup_Wait
    \/ Restore_Exit

SpecRT == InitRT /\ [][NextRT]_vars

\* ------------------------------------------------ SIGINT and SIGTERM (SpecSig)

\* Largest number of signals delivered to one run.
MaxSignals == 1

\* The tunnel holds something: the flag is up, the listening socket, the SSH
\* transport or the ssh child is open.
TunnelOpen ==
    tunnel_running \/ sock = "listening" \/ transport = "open" \/ proc = "running"

\* One delivered signal: where the main thread was, whether the tunnel was open,
\* and what became of the SystemExit that signal_handler raised.
Delivered(fate) == [at |-> pc, open |-> TunnelOpen, fate |-> fate]

\* The statements of the collector's cleanup_tunnel that stand inside
\* `try: ... except: pass`: the two close() calls and the join.
Swallows(p) ==
    \/ p \in {"cl_close", "cl_joining"}
    \/ p = "cl_ssh" /\ ssh_client # "None"

InCleanup(p) ==
    p \in {"cl_running", "cl_server", "cl_close", "cl_none", "cl_join", "cl_joining",
           "cl_ssh", "rcl_test", "rcl_wait"}

\* The statements under the try of collect_all, of restore_all and of the
\* single-kind branches of the restorer's main, whose finally calls cleanup_tunnel.
InTry(p) == p \in {"get_reports", "get_alerts", "file_open", "item", "file_done"}

CanSignal == Alive /\ pc # "sys_exit" /\ Len(sigLog) < MaxSignals

\* signal_handler runs while cleanup_tunnel is at self.tunnel_server.close(): the
\* bare except around the call catches the SystemExit and cleanup_tunnel goes on.
Signal_InServerClose ==
    /\ CanSignal /\ pc = "cl_close"
    /\ sigLog' = Append(sigLog, Delivered("swallowed"))
    /\ sock' = IF sock = "listening" THEN "closed" ELSE sock
    /\ pc' = "cl_none"
    /\ UNCHANGED << prog, caller, other, farSide, ssh_client, transport, tunnel_running,
                    tunnel_server, tunnel_thread, wpc, fwd, createResult, results, reqlog,
                    probes, exitCode, cleanupCalls, lastClean, thisClean, rvars, hvars,
                    srcStore >>

\* signal_handler runs while cleanup_tunnel waits in join(timeout=5): the wait
\* ends there, the bare except catches the SystemExit, self.tunnel_thread = None.
Signal_InJoin ==
    /\ CanSignal /\ pc = "cl_joining"
    /\ sigLog' = Append(sigLog, Delivered("swallowed"))
    /\ tunnel_thread' = "None"
    /\ pc' = "cl_ssh"
    /\ UNCHANGED << prog, caller, other, farSide, ssh_client, transport, tunnel_running,
                    tunnel_server, sock, wpc, fwd, createResult, results, reqlog, probes,
                    exitCode, cleanupCalls, lastClean, thisClean, rvars, hvars, srcStore >>

\* signal_handler runs while cleanup_tunnel is in self.ssh_client.close(): close
\* is cut short with the transport as it was, the bare except catches the
\* SystemExit, self.ssh_client = None and cleanup_tunnel returns.
Signal_InSshClose ==
    /\ CanSignal /\ pc = "cl_ssh" /\ ssh_client # "None"
    /\ sigLog' = Append(sigLog, Delivered("swallowed"))
    /\ ssh_client' = "None"
    /\ cleanupCalls' = cleanupCalls + 1
    /\ lastClean' = thisClean
    /\ pc' = AfterCleanup(caller)
    /\ createResult' = IF caller = "create" THEN "false" ELSE createResult
    /\ UNCHANGED << prog, caller, other, farSide, transport, tunnel_running,
                    tunnel_server, tunnel_thread, sock, wpc, fwd, results, reqlog, probes,
                    exitCode, rvars, hvars, srcStore >>
    /\ thisClean' = << TunnelObs' >>

\* signal_handler runs at a statement of cleanup_tunnel that no try protects: the
\* SystemExit leaves cleanup_tunnel.  Out of the atexit hook it ends the hook and
\* the process with it; otherwise it goes up to the top of main.
Signal_InCleanup ==
    /\ CanSignal /\ InCleanup(pc) /\ ~Swallows(pc)
    /\ IF caller = "atexit"
       THEN /\ sigLog' = Append(sigLog, Delivered("in_atexit"))
            /\ pc' = "terminated"
       ELSE /\ sigLog' = Append(sigLog, Delivered("exit"))
            /\ pc' = "sys_exit"
    /\ UNCHANGED << prog, caller, other, farSide, cvars, createResult, results, reqlog,
                    probes, exitCode, cleanupCalls, lastClean, thisClean, rvars, hvars,
                    srcStore >>

\* signal_handler runs during a transfer: no except clause catches SystemExit
\* and the finally clause calls cleanup_tunnel before the exception goes on.
Signal_InTry ==
    /\ CanSignal /\ InTry(pc)
    /\ sigLog' = Append(sigLog, Delivered("exit"))
    /\ pc' = AtExit(prog)
    /\ caller' = "finally_exc"
    /\ UNCHANGED << prog, other, farSide, cvars, createResult, results, reqlog, probes,
                    exitCode, cleanupCalls, lastClean, thisClean, rvars, hvars, srcStore >>

\* signal_handler runs during self.ssh_client.connect(): the client is assigned
\* and its transport is or is not yet open when the SystemExit goes up.
Signal_InConnect ==
    /\ CanSignal /\ prog = "collect" /\ pc = "connect"
    /\ sigLog' = Append(sigLog, Delivered("exit"))
    /\ ssh_client' = "client"
    /\ transport' \in {"none", "open"}
    /\ pc' = "sys_exit"
    /\ UNCHANGED << prog, caller, other, farSide, tunnel_running, tunnel_server,
                    tunnel_thread, sock, wpc, fwd, createResult, results, reqlog, probes,
                    exitCode, cleanupCalls, lastClean, thisClean, rvars, hvars, srcStore >>

\* signal_handler runs anywhere else in main, create_ssh_tunnel included: the
\* `except Exception` clauses let the SystemExit through to the top.
Signal_Elsewhere ==
    /\ CanSignal /\ ~InCleanup(pc) /\ ~InTry(pc)
    /\ sigLog' = Append(sigLog, Delivered("exit"))
    /\ pc' = "sys_exit"
    /\ UNCHANGED << prog, caller, other, farSide, cvars, createResult, results, reqlog,
                    probes, exitCode, cleanupCalls, lastClean, thisClean, rvars, hvars,
                    srcStore >>

\* sys.exit(1) of signal_handler reaches the top: the interpreter exits with
\* status 1 and runs the atexit hook.
Sys_Exit ==
    /\ pc = "sys_exit"
    /\ exitCode' = 1
    /\ pc' = AtExit(prog)
    /\ caller' = "atexit"
    /\ UNCHANGED << prog, other, farSide, cvars, createResult, results, reqlog, probes,
                    cleanupCalls, lastClean, thisClean, rvars, hvars, srcStore, sigLog >>

\* The files of the runs that signals are delivered to.
InitSig ==
    /\ Init
    /\ prog = "restore" => files[Head(QueueOf(mode))] \in SecondFiles

NextSig ==
    \/ Next
    \/ Signal_InServerClose
    \/ Signal_InJoin
    \/ Signal_InSshClose
    \/ Signal_InCleanup
    \/ Signal_InTry
    \/ Signal_InConnect
    \/ Signal_Elsewhere
    \/ Sys_Exit

SpecSig == InitSig /\ [][NextSig]_vars

\* --------------------------------------------- threads that keep running (SpecLive)

\* A collector run.
InitLive == Init /\ prog = "collect"

\* The statements of _tunnel_worker: none of them waits for longer than the one
\* second of settimeout(1.0), so a worker that can take a step takes one.
WorkerStep ==
    \/ Worker_Bind
    \/ Worker_Assign
    \/ Worker_Loop
    \/ Worker_AcceptTimeout
    \/ Worker_AcceptConn
    \/ Worker_AcceptError
    \/ Worker_Finally

\* The statements of _handle_tunnel_connection that wait for no peer: opening the
\* channel, the finally clause, and the round of the copy loop that finds the
\* channel closed (select reports it at once, recv returns nothing or raises).
FwdStep(c) ==
    \/ Fwd_OpenChannel(c)
    \/ Fwd_CopyEnd(c) /\ fwd[c].chan # "open"
    \/ Fwd_Finally(c)

\* Daemon threads are scheduled as long as the process lives.
Fairness ==
    /\ WF_vars(WorkerStep)
    /\ \A c \in Conns : WF_vars(FwdStep(c))

SpecLive == InitLive /\ [][CollectorNext]_vars /\ Fairness

\* ======================================================================= claims

\* C1. Duplex fidelity: whenever no recv or send has raised, what the forwarder
\* has passed on to each endpoint is exactly what it has read from the other
\* one: the same bytes in the same order, none dropped, none added.
C1_DuplexFidelity ==
    (hpc # "unused" /\ ~ioError) => (toRemote = cRead /\ toClient = rRead)

\* The tunnel holds nothing: the flag is down, the tool has no open listening
\* socket, no open SSH transport, no running ssh child, and does not hold the port.
Released(obs) ==
    /\ ~obs.running
    /\ ~obs.listener
    /\ ~obs.sshOpen
    /\ ~obs.procOpen
    /\ obs.port # "self"

\* C2. cleanup_tunnel is idempotent: every call returns with the tunnel released,
\* and a second or later call returns with the tunnel in the very state in which
\* the call before it returned.
C2_CleanupIdempotent ==
    /\ cleanupCalls >= 1 => Released(thisClean[1])
    /\ cleanupCalls >= 2 => thisClean = lastClean

\* A collector run whose tunnel came up, closed by the finally clause of
\* collect_all and closed again by the atexit hook.
C2_Witness ==
    /\ prog = "collect" /\ pc = "terminated"
    /\ createResult = "true"
    /\ cleanupCalls = 2

\* C3. With the local port held by another listener, so that the worker's bind
\* failed, create_ssh_tunnel returns False and leaves no SSH transport open.
C3_OccupiedPortFails ==
    (/\ prog = "collect" /\ other # "none"
     /\ wpc = "done" /\ sock = "none"
     /\ pc = "create_ret")
        => (createResult = "false" /\ transport # "open")

\* C4. Whenever create_ssh_tunnel has just returned False, the flag is down, no
\* listening socket is open and no SSH transport or ssh child is left open.
C4_FullUnwind ==
    (pc = "create_ret" /\ createResult = "false")
        => /\ ~tunnel_running
           /\ sock # "listening"
           /\ transport # "open"
           /\ proc # "running"

LastProbe == probes[Len(probes)]

\* C5. Once create_ssh_tunnel has returned after probing: a response of any
\* status made it return True; a refused or timed out probe made it return False
\* after a teardown that released the tunnel; and with the tool's own listener on
\* the port and nothing answering on the far side it returned False.
C5_ProbeOutcome ==
    (createResult # "none" /\ probes # << >>)
        => /\ LastProbe \in {"http_2xx", "http_error_status"} => createResult = "true"
           /\ LastProbe \in {"conn_error", "timeout"}
                 => /\ createResult = "false"
                    /\ cleanupCalls >= 1
                    /\ (pc = "create_ret" => Released(thisClean[1]))
           /\ (other = "none" /\ farSide # "http") => createResult = "false"

\* The probe was answered with an error status and the tunnel counts as up.
C5_Witness ==
    /\ createResult = "true"
    /\ probes = << "http_error_status" >>
    /\ other = "none"

\* C6. After create_ssh_tunnel has returned False no search GET and no document
\* PUT is ever issued; collect_all and restore_all report both kinds failed, and
\* the process, single-kind and single-file restores included, exits with 1.
C6_SetupFailureEscalated ==
    createResult = "false"
        => /\ reqlog = << >>
           /\ (pc \in {"summary", "terminated"} /\ (prog = "collect" \/ mode = "all"))
                 => (results["reports"] = "false" /\ results["alerts"] = "false")
           /\ (pc # "create_ret" /\ prog = "restore" /\ mode # "all") => exitCode = 1
           /\ pc = "terminated" => exitCode = 1

\* A single-file restore whose tunnel did not come up, after it has exited.
C6_Witness ==
    /\ prog = "restore" /\ mode = "file"
    /\ createResult = "false"
    /\ pc = "terminated"
    /\ exitCode = 1

\* C7. When restore_from_file is through with a file, every entry of hits.hits
\* has been counted once: success_count + failure_count is the number of entries.
C7_EveryEntryCounted ==
    (prog = "restore" /\ pc = "file_done")
        => success_count + failure_count = Len(CurFile.hits)

\* An entry that is a JSON object and lacks `_index`, `_id` or `_source`.
FieldMissing(item) ==
    item.dict /\ (item.index = "None" \/ item.id = "None" \/ item.source = "None")

\* C8. The round of the loop that handles an entry lacking `_index`, `_id` or
\* `_source` adds exactly one to failure_count, issues no request, leaves the
\* store alone and goes on to the next entry (or to the end of the loop after the
\* last one); and every PUT ever issued names a non-empty index and id.
C8_MissingFieldSkipped ==
    /\ [][ (/\ prog = "restore" /\ pc = "item"
            /\ FieldMissing(CurFile.hits[hitNo])
            /\ << pc, hitNo >>' # << pc, hitNo >>)
           => /\ failure_count' = failure_count + 1
              /\ success_count' = success_count
              /\ reqlog' = reqlog
              /\ store' = store
              /\ hitNo' = hitNo + 1
              /\ IF hitNo < Len(CurFile.hits)
                 THEN pc' = "item"
                 ELSE pc' = "file_done" /\ fileState' = "counted" ]_vars
    /\ [](\A n \in 1..Len(reqlog) :
            reqlog[n].method = "PUT" => (~Falsy(reqlog[n].target) /\ ~Falsy(reqlog[n].id)))

\* A file whose first entry lacks `_id` and whose second entry was restored.
C8_Witness ==
    /\ prog = "restore" /\ pc = "file_done" /\ fileState = "counted"
    /\ CurFile.hits = << Doc("i", "None", "s"), Doc("i", "2", "s") >>
    /\ failure_count = 1 /\ success_count = 1
    /\ Len(reqlog) = 1

\* The kind restored last, once nothing is left to restore.
AllRestored == prog = "restore" /\ createResult = "true" /\ queue = << >>

LastKind == QueueOf(mode)[Len(QueueOf(mode))]

LastFile == files[LastKind]

\* C9. Once the last file is restored, if it was a search envelope: its result is
\* success exactly when every entry was restored successfully; without entries it
\* is success with nothing counted (and, alone in the run, with no request); and the
\* file of three valid documents and one entry without `_id`, its three PUTs
\* accepted, gives 3 successes, 1 failure, failure overall and exit status 1.
C9_OverallResult ==
    (AllRestored /\ LastFile.kind = "envelope")
        => /\ results[LastKind] = "true" <=> success_count = Len(LastFile.hits)
           /\ LastFile.hits = << >>
                 => /\ results[LastKind] = "true"
                    /\ success_count = 0 /\ failure_count = 0
                    /\ mode # "all" => reqlog = << >>
           /\ (/\ LastFile.hits = ScenarioHits
               /\ mode # "all"
               /\ \A n \in 1..Len(reqlog) : reqlog[n].status \in {200, 201})
                 => /\ success_count = 3 /\ failure_count = 1
                    /\ success_count + failure_count = 4
                    /\ results[LastKind] = "false"
                    /\ exitCode \in {-1, 1}
                    /\ pc = "terminated" => exitCode = 1

\* The file of three valid documents and one entry without `_id`, restored.
C9_Witness ==
    /\ AllRestored /\ mode = "file" /\ pc = "terminated"
    /\ LastFile.hits = ScenarioHits
    /\ success_count = 3 /\ failure_count = 1
    /\ exitCode = 1

\* The PUT of this step was accepted by the store.
PutAccepted ==
    /\ Len(reqlog') = Len(reqlog) + 1
    /\ reqlog'[Len(reqlog')].method = "PUT"
    /\ reqlog'[Len(reqlog')].status \in {200, 201}

\* C10. Every PUT the store accepts is reported as a success and leaves source
\* under (index, id) and every other key as it was; so restoring a document that
\* the store already holds succeeds again and leaves the store as it is.
C10_IdempotentUpsert ==
    [][ PutAccepted
        => LET r == reqlog'[Len(reqlog')]
               key == << r.target, r.id >>
           IN  /\ success_count' = success_count + 1
               /\ failure_count' = failure_count
               /\ store'[key] = r.source
               /\ \A k \in Keys \ {key} : store'[k] = store[k]
               /\ store[key] = r.source => store' = store ]_vars

\* The same document restored twice from one file, both PUTs accepted.
C10_Witness ==
    /\ prog = "restore" /\ Len(reqlog) = 2
    /\ reqlog[1].status = 201 /\ reqlog[2].status = 200
    /\ << reqlog[1].target, reqlog[1].id, reqlog[1].source >>
         = << reqlog[2].target, reqlog[2].id, reqlog[2].source >>
    /\ success_count = 2
    /\ store[<< reqlog[1].target, reqlog[1].id >>] = reqlog[1].source

\* C11. Round trip: once a collected file has been restored, the search having
\* answered with an envelope and the store having accepted every PUT sent to it,
\* the destination store holds under every (index, id) of the source store the
\* source the source store holds there.
C11_RoundTrip ==
    (/\ pc = "terminated"
     /\ files["file"].kind = "envelope"
     /\ \A n \in 1..Len(reqlog) : reqlog[n].status \in {200, 201})
        => \A k \in Held(srcStore) : store[k] = srcStore[k]

\* The search GETs issued so far for one collection target.
GetsFor(kind) ==
    { n \in 1..Len(reqlog) : reqlog[n].method = "GET" /\ reqlog[n].target = kind }

\* C12. A collection target whose search was answered 2xx with a JSON body that
\* has no top-level `hits` key is recorded as failed, and its request is issued
\* once only.
C12_MissingHitsIsFailure ==
    prog = "collect"
        => \A kind \in CollectKinds :
             /\ Cardinality(GetsFor(kind)) <= 1
             /\ \A n \in GetsFor(kind) :
                  reqlog[n].answer = "no_hits" => results[kind] = "false"

\* The kinds this run was asked to transfer.
Requested == IF prog = "collect" THEN CollectKinds ELSE { QueueOf(mode)[n] : n \in 1..Len(QueueOf(mode)) }

\* collect_all or restore_all has returned the results map of a tunnel that came up.
BothAttempted ==
    /\ createResult = "true"
    /\ pc \in {"summary", "terminated"}
    /\ prog = "collect" \/ mode = "all"

\* C13. Per-kind isolation.  Once collect_all or restore_all has returned with the
\* tunnel up, both kinds have a recorded result; the collector has sent exactly
\* one search for each kind and a kind's result is True exactly when its own
\* search was answered 2xx; a restored kind whose file is missing, is not JSON,
\* has no `hits` or has no entries has the result that file alone gives.  And a
\* result once recorded is never changed by what happens to the other kind.
C13_PerKindIsolation ==
    /\ [](BothAttempted =>
            \A kind \in CollectKinds :
              /\ results[kind] # "unset"
              /\ prog = "collect" =>
                    /\ Cardinality(GetsFor(kind)) = 1
                    /\ \A n \in GetsFor(kind) :
                         results[kind] = "true" <=> reqlog[n].status = 200
              /\ (prog = "restore" /\ BeforeLoop(files[kind]) # "loop") =>
                    results[kind] = BeforeLoop(files[kind]))
    /\ [][\A kind \in Kinds :
            results[kind] # "unset" => results'[kind] = results[kind]]_vars

\* The reports search failed and the alerts search, sent all the same, succeeded.
C13_Witness ==
    /\ prog = "collect" /\ pc = "summary" /\ createResult = "true"
    /\ results["reports"] = "false" /\ results["alerts"] = "true"
    /\ Len(reqlog) = 2 /\ reqlog[1].status = 500 /\ reqlog[2].status = 200

\* C14. A process that has terminated has exit status 0 or 1: 0 exactly when
\* every kind it was asked to transfer is recorded as succeeded in the results
\* map, and 1 whenever create_ssh_tunnel returned False.
C14_ExitStatus ==
    pc = "terminated"
        => /\ exitCode \in {0, 1}
           /\ exitCode = 0 <=> \A kind \in Requested : results[kind] = "true"
           /\ createResult = "false" => exitCode = 1

\* A collector that got its reports and failed to get its alerts has exited with 1.
C14_Witness ==
    /\ prog = "collect" /\ pc = "terminated"
    /\ results["reports"] = "true" /\ results["alerts"] = "false"
    /\ exitCode = 1

\* A signal was delivered while the tunnel was open.
SignalledOpen == \E n \in 1..Len(sigLog) : sigLog[n].open

\* C15. A process that was sent SIGINT or SIGTERM while its tunnel was open has,
\* once it has terminated, a non-zero exit status, a finished teardown, no
\* listening socket, no forwarded socket or channel, no SSH client and no ssh
\* child left open.
C15_InterruptTearsDown ==
    (pc = "terminated" /\ SignalledOpen)
        => /\ exitCode \notin {-1, 0}
           /\ cleanupCalls >= 1
           /\ sock # "listening"
           /\ \A c \in Conns : fwd[c].csock # "open" /\ fwd[c].chan # "open"
           /\ ssh_client = "None" /\ transport # "open"
           /\ proc # "running"

\* C16. Guaranteed teardown: a run whose tunnel was opened reaches its summary
\* only after cleanup_tunnel has returned; the process terminates only out of
\* cleanup_tunnel called by the exit hook, whatever path led to the exit (normal
\* completion, a failed transfer, an interrupt); and a step of cleanup_tunnel
\* that no signal interrupts goes to its next statement or returns to the
\* continuation of its caller, never anywhere else.
C16_GuaranteedTeardown ==
    /\ [](pc = "summary" /\ createResult = "true" => cleanupCalls >= 1)
    /\ [][(pc # "terminated" /\ pc' = "terminated")
              => caller = "atexit" /\ InCleanup(pc)]_vars
    /\ [][(InCleanup(pc) /\ sigLog' = sigLog)
              => /\ caller' = caller
                 /\ InCleanup(pc') \/ pc' = AfterCleanup(caller)]_vars

\* A collector interrupted during its second search: the finally clause and the
\* exit hook have both run cleanup_tunnel to its end.
C16_Witness ==
    /\ prog = "collect" /\ pc = "terminated"
    /\ Len(sigLog) = 1 /\ sigLog[1].at = "get_alerts" /\ sigLog[1].open
    /\ cleanupCalls = 2
    /\ exitCode = 1

\* C17. In every state of a collector run the listener reference is set exactly
\* when the running flag is up: tunnel_server is not None if and only if
\* tunnel_running is True.
C17_ServerIffRunning ==
    prog = "collect" => (tunnel_server # "None" <=> tunnel_running)

\* C18. When cleanup_tunnel returns no forwarded connection is still active: the
\* client socket and the channel of every forwarder are closed.
C18_NoForwarderAfterCleanup ==
    [][cleanupCalls' = cleanupCalls + 1
          => \A c \in Conns : fwd'[c].csock # "open" /\ fwd'[c].chan # "open"]_vars

\* A step taken by the collector's cleanup_tunnel itself.
CleanupStep == prog = "collect" /\ InCleanup(pc) /\ pc' # pc

\* C19 as stated. cleanup_tunnel closes the listener first, then the SSH client,
\* and only after both marks the session not-running: the step that clears
\* tunnel_running finds no listening socket and no SSH client.
C19_FlagClearedLast ==
    [][(CleanupStep /\ tunnel_running /\ ~tunnel_running')
          => sock # "listening" /\ ssh_client = "None"]_vars

\* C19, amended. cleanup_tunnel clears tunnel_running first, then closes the
\* listener, then joins the worker, and closes the SSH client last: whatever it
\* closes, it closes with the flag down; the listener and the worker are dealt
\* with while the SSH client is untouched; the SSH client is closed when no
\* socket of the tunnel listens any more, in the step that ends cleanup_tunnel.
C19_CleanupOrder ==
    [][CleanupStep =>
          /\ (\/ sock' # sock \/ tunnel_server' # tunnel_server
              \/ tunnel_thread' # tunnel_thread)
                 => /\ ~tunnel_running
                    /\ InCleanup(pc')
                    /\ ssh_client' = ssh_client /\ transport' = transport
          /\ tunnel_thread' # tunnel_thread => sock # "listening"
          /\ ssh_client' # ssh_client
                 => /\ ~tunnel_running
                    /\ sock # "listening"
                    /\ ~InCleanup(pc')]_vars

\* cleanup_tunnel of an established tunnel has cleared the flag and closed the
\* listener; the SSH client is still open.
C19_Witness ==
    /\ prog = "collect" /\ pc = "cl_none"
    /\ ~tunnel_running
    /\ sock = "closed" /\ tunnel_server = "socket"
    /\ ssh_client = "client" /\ transport = "open"

\* C20. An error while accepting one connection does not stop the accept loop:
\* while tunnel_running is True the worker does not leave its loop.
C20_AcceptErrorContinues ==
    [][(wpc = "accept" /\ tunnel_running /\ tunnel_running')
          => wpc' # "finally"]_vars

\* C21. Whatever way a forwarder leaves _handle_tunnel_connection (end of
\* stream, an I/O error in the copy loop, a channel that could not be opened),
\* it has closed the client socket, and the channel too if one was opened: no
\* forwarder that has ended holds an open endpoint.
C21_ForwarderReleases ==
    \A c \in Conns :
        fwd[c].pc = "done"
            => fwd[c].csock = "closed" /\ fwd[c].chan \in {"closed", "unbound"}

\* A forwarder has ended after copying: its channel is closed while the
\* transport is still open.
C21_Witness ==
    /\ transport = "open"
    /\ \E c \in Conns : fwd[c].pc = "done" /\ fwd[c].chan = "closed"

\* C22. The copy loop of a forwarder ends only on a zero-length read from one of
\* the two endpoints or on an I/O error; a select that times out with nothing
\* to read never ends the connection: the forwarder polls again.
C22_LoopEndsOnEofOrError ==
    [][/\ (hpc \in {"select", "client", "channel"} /\ hpc' = "finally")
            => \/ ioError'
               \/ hpc = "client" /\ cClosed /\ cIn = << >> /\ cRead' = cRead
               \/ hpc = "channel" /\ rClosed /\ rIn = << >> /\ rRead' = rRead
       /\ (hpc = "select" /\ Readable = {}) => hpc' = "select"]_vars

\* The forwarder has relayed bytes both ways, then a select has timed out with
\* both peers still connected and silent: the forwarder is polling again.
C22_Witness ==
    /\ hpc = "select" /\ ready = {} /\ Readable = {}
    /\ ~cClosed /\ ~rClosed /\ ~ioError
    /\ toRemote # << >> /\ toClient # << >>

\* The worker thread is between its start and its end.
WorkerRunning == wpc \notin {"idle", "done"}

Accepted(f) == { c \in Conns : f[c].pc # "unused" }

\* C24. Accepting a connection never waits on a forwarder: a worker in accept()
\* on a listening socket can take the next connection whatever the forwarders
\* of earlier connections are doing; an accept starts exactly one new forwarder
\* and leaves the others as they are, and a step of a forwarder changes neither
\* the worker nor any other forwarder.
C24_AcceptIndependent ==
    /\ []((Alive /\ wpc = "accept" /\ sock = "listening" /\ Accepted(fwd) # Conns)
             => ENABLED Worker_AcceptConn)
    /\ [][(wpc = "accept" /\ fwd' # fwd /\ wpc' # wpc)
             => /\ Cardinality(Accepted(fwd')) = Cardinality(Accepted(fwd)) + 1
                /\ \A c \in Accepted(fwd) : fwd'[c] = fwd[c]]_vars
    /\ [][(fwd' # fwd /\ wpc' = wpc /\ pc' = pc)
             => /\ Cardinality({ c \in Conns : fwd'[c] # fwd[c] }) = 1
                /\ Accepted(fwd') = Accepted(fwd)]_vars

\* The worker is in accept() again while the forwarders of two earlier
\* connections are both in their copy loops.
C24_Witness ==
    /\ wpc = "accept" /\ sock = "listening"
    /\ fwd[1].pc = "copy" /\ fwd[2].pc = "copy"
    /\ fwd[1].chan = "open" /\ fwd[2].chan = "open"

\* The entries of hits[1..n] that restore_from_file sends a PUT for: those with
\* all three fields, up to the first entry that is not an object.
RECURSIVE Sent(_, _)
Sent(hits, n) ==
    IF n = 0 THEN << >>
    ELSE IF \E m \in 1..n : ~hits[m].dict THEN Sent(hits, n - 1)
    ELSE IF AllFields(hits[n]) THEN Append(Sent(hits, n - 1), hits[n])
    ELSE Sent(hits, n - 1)

\* The entries a PUT is due for so far, file after file in the order of the run.
RECURSIVE DueFor(_)
DueFor(kinds) ==
    IF kinds = << >> THEN << >>
    ELSE LET k == Head(kinds)
             h == files[k].hits
             part == IF createResult = "true" /\ results[k] # "unset"
                         THEN Sent(h, Len(h))
                     ELSE IF /\ queue # << >> /\ Head(queue) = k
                             /\ pc \in {"item", "file_done"}
                         THEN Sent(h, hitNo - 1)
                     ELSE << >>
         IN part \o DueFor(Tail(kinds))

\* C25. No retry and strict order: each collection target gets at most one
\* search GET, exactly one once its result is known in a run whose tunnel came
\* up, and a GET that failed leaves the target's result False; the PUTs of a
\* restore are, one for one and in the same order, the documents of the files
\* processed so far, whether they succeeded or failed; and a run whose results
\* are all True has seen no failed request.
C25_NoRetryInOrder ==
    /\ prog = "collect" =>
          \A kind \in CollectKinds :
             /\ Cardinality(GetsFor(kind)) <= 1
             /\ (createResult = "true" /\ results[kind] # "unset")
                   => Cardinality(GetsFor(kind)) = 1
             /\ \A n \in GetsFor(kind) :
                   reqlog[n].status # 200 => results[kind] = "false"
    /\ prog = "restore" =>
          LET due == DueFor(QueueOf(mode)) IN
            /\ Len(reqlog) = Len(due)
            /\ \A n \in 1..Len(reqlog) :
                  /\ reqlog[n].method = "PUT"
                  /\ reqlog[n].target = due[n].index
                  /\ reqlog[n].id = due[n].id
                  /\ reqlog[n].source = due[n].source
    /\ (pc \in {"summary", "terminated"} /\ \A kind \in Requested : results[kind] = "true")
          => \A n \in 1..Len(reqlog) : reqlog[n].status \in {200, 201}

\* A restore of two documents whose first PUT failed: the second document was
\* sent next, the first never again, and the file is reported as failed.
C25_Witness ==
    /\ prog = "restore" /\ pc = "terminated" /\ mode = "file"
    /\ Len(reqlog) = 2
    /\ reqlog[1].status \notin {200, 201} /\ reqlog[2].status = 201
    /\ reqlog[1].id # reqlog[2].id
    /\ results["file"] = "false"

\* C26. Every search GET and every document PUT is issued after
\* create_ssh_tunnel has returned True and before cleanup_tunnel has been
\* called: no request of a transfer goes to a tunnel that cleanup_tunnel has
\* closed or is closing.
C26_TransfersInsideTunnel ==
    [][reqlog' # reqlog
          => /\ createResult = "true"
             /\ ~InCleanup(pc)
             /\ cleanupCalls = 0 /\ cleanupCalls' = 0]_vars

\* A collector run that sent both searches and then closed its tunnel twice,
\* from the finally clause and from the exit hook.
C26_Witness ==
    /\ prog = "collect" /\ pc = "terminated"
    /\ createResult = "true"
    /\ Len(reqlog) = 2
    /\ cleanupCalls = 2

\* A forwarder that has been started and has not reached the end of its function.
Active(c) == fwd[c].pc \in {"open_channel", "copy", "finally"}

C28_EofDropsOtherDirection ==
    [][/\ (hpc = "client" /\ "client" \in ready /\ cIn = << >> /\ hpc' # hpc)
            => hpc' = "finally"
       /\ (hpc = "channel" /\ "channel" \in ready /\ rIn = << >> /\ hpc' # hpc)
            => hpc' = "finally"
       /\ hpc \in {"finally", "done"}
            => /\ hpc' \in {"finally", "done"}
               /\ toClient' = toClient /\ toRemote' = toRemote
               /\ cRead' = cRead /\ rRead' = rRead]_vars

\* The client wrote all of its request and closed; the request was relayed in
\* full, no call failed, and the forwarder has ended with bytes of the response
\* still unread on the channel.
C28_Witness ==
    /\ hpc = "done" /\ ~ioError
    /\ cLeft = 0 /\ Len(toRemote) = MaxBytes
    /\ rIn # << >>
    /\ Len(toClient) + Len(rIn) + rLeft = MaxBytes

\* An entry with an index and an id whose `_source` is present and empty.
EmptySource(item) ==
    item.dict /\ ~Falsy(item.index) /\ ~Falsy(item.id) /\ item.source = "{}"

\* The entries with an empty source among the first n of the file being restored.
EmptyBefore(n) == { m \in 1..n : EmptySource(CurFile.hits[m]) }

\* C29. An entry whose `_source` is present but empty is treated like an entry
\* with a missing field: it is counted as failed and no PUT is issued for it, so
\* no PUT ever carries an empty source and the store never holds one.
C29_EmptySourceSkipped ==
    /\ \A n \in 1..Len(reqlog) : reqlog[n].method = "PUT" => ~Falsy(reqlog[n].source)
    /\ \A k \in Keys : ~Falsy(store[k])
    /\ (/\ prog = "restore" /\ queue = QueueOf(mode)
        /\ \/ pc = "item"
           \/ pc = "file_done" /\ fileState = "counted")
          => /\ failure_count >= Cardinality(EmptyBefore(hitNo - 1))
             /\ Len(reqlog) <= (hitNo - 1) - Cardinality(EmptyBefore(hitNo - 1))

\* A file of two entries: the first, with an empty source, was counted as
\* failed and not sent; the second was restored.
C29_Witness ==
    /\ prog = "restore" /\ pc = "file_done" /\ fileState = "counted"
    /\ CurFile.hits = << Doc("i", "1", "{}"), Doc("i", "2", "s") >>
    /\ failure_count = 1 /\ success_count = 1
    /\ Len(reqlog) = 1 /\ reqlog[1].id = "2"
    /\ store[<< "i", "1" >>] = "absent"

\* cleanup_tunnel has gone past its listener statements while the worker has not
\* yet set self.tunnel_server: it saw None there and closed nothing.
LateWorker ==
    /\ pc \in {"cl_join", "cl_joining"}
    /\ wpc \in {"bind", "assign"}

\* C30. When cleanup_tunnel runs before the worker has bound the port, the
\* worker still leaves no listening socket behind: from then on it accepts no
\* connection, it ends, and once it has ended the socket it bound is closed.
C30_LateWorkerLeavesNoListener ==
    /\ [](LateWorker => [](Accepted(fwd) = {} /\ wpc # "accept"))
    /\ LateWorker ~> (wpc = "done")
    /\ [](wpc = "done" => sock # "listening")

\* The worker bound the port after cleanup_tunnel had skipped the listener, and
\* has ended: cleanup_tunnel, still in its join, never touched the socket, which
\* the worker closed itself.
C30_Witness ==
    /\ pc = "cl_joining" /\ wpc = "done"
    /\ tunnel_server = "socket" /\ sock = "closed"
    /\ ~tunnel_running
    /\ Accepted(fwd) = {}

====
